---- MODULE Spec2Model ----
(***************************************************************************)
(* The view state and the handlers of three widgets of the application:    *)
(* TacticalContentGenerator (src/src/component/content.tsx), FileUploader  *)
(* and ProfessionalSpeechInput (src/src/component/fileUpload.tsx).         *)
(*                                                                         *)
(* A behaviour is one mount of one widget (variable widget).  An action is *)
(* one run of a handler up to its next await, or the continuation of an    *)
(* async handler after its await; the state updates of one such run are    *)
(* committed together, as React commits the updates of one event.          *)
(* A handler called from a rendered control reads the state of the current *)
(* render; generateContent called by the timer of                          *)
(* regenerateWithEnhancement reads the formData of the render in which the *)
(* timer was set (the closure of line 310).                                *)
(* Strings that the code inspects character by character (the topic, the   *)
(* download name) are sequences of one-character strings; the others are   *)
(* strings.                                                                *)
(***************************************************************************)
EXTENDS Integers, Sequences, FiniteSets, TLC

\* ------------------------------------------------------------------ bounds
\* longest topic the user types (SpecForm)
MaxLen == 3
\* HTTP requests issued in one behaviour (Spec)
MaxReq == 3
\* HTTP requests issued in one behaviour (FairSpec)
MaxFairReq == 2
\* HTTP requests issued in one behaviour, one after the other (SpecForm)
MaxFormReq == 2
\* regenerate timers pending at once (Spec)
MaxTimers == 1
\* longest tactics list from which Optimize & Regenerate is still clicked (Spec)
MaxTactics == 1
\* utterances recognized in one behaviour (SpecSpeech)
MaxUtterances == 2
\* HTTP requests issued in one behaviour (SpecTactics): the first, and one for
\* each regeneration that takes tactics from one selected to all eight
MaxRegenReq == 8

\* ------------------------------------------------------------- characters
Chars == {" ", "A"}

IsWhitespace(c) == c = " "

toLowerCase(s) == [i \in 1..Len(s) |-> IF s[i] = "A" THEN "a" ELSE s[i]]

RECURSIVE trimStart(_)
trimStart(s) ==
  IF s = <<>> THEN s
  ELSE IF IsWhitespace(Head(s)) THEN trimStart(Tail(s)) ELSE s

RECURSIVE trimEnd(_)
trimEnd(s) ==
  IF s = <<>> THEN s
  ELSE IF IsWhitespace(s[Len(s)]) THEN trimEnd(SubSeq(s, 1, Len(s) - 1)) ELSE s

trim(s) == trimEnd(trimStart(s))

\* s.replace(/\s+/g, '-'): every maximal run of whitespace becomes one '-'
RECURSIVE replaceWhitespace(_)
replaceWhitespace(s) ==
  IF s = <<>> THEN <<>>
  ELSE IF IsWhitespace(Head(s))
       THEN <<"-">> \o replaceWhitespace(trimStart(s))
       ELSE <<Head(s)>> \o replaceWhitespace(Tail(s))

Strings(n) == UNION {[1..k -> Chars] : k \in 0..n}

\* ---------------------------------------------------- content.tsx: data
InitialFormData ==
  [contentType |-> "strategy", topic |-> <<>>, tactics |-> <<>>,
   tone |-> "professional", length |-> "medium", complexity |-> "intermediate",
   audience |-> "", keywords |-> "", examples |-> "yes", humorLevel |-> "none"]

steps == <<"Core", "Frameworks", "Parameters", "Generate">>

tacticalOptions ==
  <<"swot", "pestle", "porter", "okr", "growth", "military", "game", "behavioral">>

Range(s) == {s[i] : i \in 1..Len(s)}

\* the optional fields in the order they are rendered, each with the values
\* its control offers (a text input: some typed values), default included
optionalFields ==
  <<"contentType", "tone", "length", "humorLevel", "complexity", "examples",
    "audience", "keywords">>

fieldValues ==
  [contentType |-> <<"strategy", "tactical", "marketing", "technical", "persuasive", "custom">>,
   tone |-> <<"professional", "academic", "authoritative", "persuasive", "urgent",
              "analytical", "conversational", "friendly">>,
   length |-> <<"medium", "short", "long", "extensive">>,
   humorLevel |-> <<"none", "slight", "moderate", "very">>,
   complexity |-> <<"intermediate", "basic", "advanced", "expert">>,
   examples |-> <<"yes", "no", "extensive">>,
   audience |-> <<"", "executives", "engineers">>,
   keywords |-> <<"", "growth", "risk">>]

\* the step on which a field's control is rendered, and whether it sits in
\* the advanced panel
fieldStep(name) == IF name \in {"contentType", "topic"} THEN 0 ELSE 2
fieldAdvanced(name) == name \in {"complexity", "examples", "audience", "keywords"}

\* ------------------------------------------------------------- messages
TopicRequiredMsg == "Please provide a \"Core Query\" (topic) to proceed."
TacticRequiredMsg == "Please select at least one \"Operational Framework\" to proceed."
IncompleteMsg == "Please complete all previous required fields."
NoContentMsg == "No content received from backend server"
GenerateFailedMsg == "Failed to generate content. Please check your network and try again."
UnexpectedMsg == "An unexpected error occurred during content generation."

\* `Server error: ${response.status}`
ServerErrorMsg(status) == "Server error: " \o ToString(status)

VARIABLES
  widget,        \* the widget that is mounted
  formData, currentStep, loading, content, showAdvanced, error,
  timers,        \* pending setTimeout(generateContent, 100) calls: the formData each closure
                 \* holds, and the tactic its click added ("" for none)
  requests,      \* generate-content requests in flight: id, whether another request
                 \* overlapped it, and whether clearForm ran while it was in flight with
                 \* no request sent since (cleared)
  httpCount,     \* HTTP requests issued so far
  newest,        \* what the latest-started completed request produced
  uploader,      \* the view state of FileUploader
  uploads,       \* insights and analyze requests in flight
  speech,        \* the view state of ProfessionalSpeechInput
  last           \* the handler that ran last

genVars == <<formData, currentStep, loading, content, showAdvanced, error,
             timers, requests, newest>>
vars == <<widget, genVars, uploader, uploads, speech, httpCount, last>>

\* last: the handler that ran; the request it sent or completed (id, 0 for
\* none) and whether that request overlapped another; what the handler was
\* given or read (arg: the formData of the closure, the response, the
\* endpoint); what it put out (out: the body of the request sent, the name of
\* the file downloaded); and whether a request has failed with no user action
\* since (unattended)
Did(op) == [op |-> op, id |-> 0, overlapped |-> FALSE, arg |-> <<>>, out |-> <<>>,
            unattended |-> FALSE]

Generator == "content-generator"
Uploader == "file-uploader"
SpeechInput == "speech-input"

\* ------------------------------------------------ content.tsx: handlers
\* handleChange: an input or select of the rendered step reports a new value
handleChange(name, value) ==
  /\ widget = Generator
  /\ currentStep = fieldStep(name)
  /\ fieldAdvanced(name) => showAdvanced
  /\ value # formData[name]
  /\ formData' = [formData EXCEPT ![name] = value]
  /\ error' = ""
  /\ last' = Did("handleChange")
  /\ UNCHANGED <<widget, speech, uploader, uploads, currentStep, loading, content, showAdvanced, timers,
                 requests, newest, httpCount>>

\* a toggle that appends without looking
toggleTactic_alwaysAppend(tactics, value) == Append(tactics, value)

\* newTactics of handleTacticSelect
toggleTactic(tactics, value) ==
  IF value \in Range(tactics)
  THEN SelectSeq(tactics, LAMBDA t : t # value)
  ELSE Append(tactics, value)

\* a framework button of step 1; last.arg is the value, last.out the tactics
\* the call found
handleTacticSelect(value) ==
  /\ widget = Generator
  /\ currentStep = 1
  /\ formData' = [formData EXCEPT !.tactics = toggleTactic(@, value)]
  /\ error' = ""
  /\ last' = [Did("handleTacticSelect") EXCEPT !.arg = value, !.out = formData.tactics]
  /\ UNCHANGED <<widget, speech, uploader, uploads, currentStep, loading, content, showAdvanced, timers,
                 requests, newest, httpCount>>

toggleAdvanced ==
  /\ widget = Generator
  /\ currentStep = 2
  /\ showAdvanced' = ~showAdvanced
  /\ last' = Did("toggleAdvanced")
  /\ UNCHANGED <<widget, speech, uploader, uploads, formData, currentStep, loading, content, error, timers,
                 requests, newest, httpCount>>

isCurrentStepValid(stepIndex, fd) ==
  IF stepIndex = 0 THEN trim(fd.topic) # <<>>
  ELSE IF stepIndex = 1 THEN Len(fd.tactics) > 0
  ELSE TRUE

\* a validateStep that does not trim the topic
validateStep_noTrim(stepIndex, fd) ==
  IF stepIndex = 0 /\ fd.topic = <<>> THEN TopicRequiredMsg
  ELSE IF stepIndex = 1 /\ Len(fd.tactics) = 0 THEN TacticRequiredMsg
  ELSE ""

\* a validateStep without the case for step 0
validateStep_noTopic(stepIndex, fd) ==
  IF stepIndex = 1 /\ Len(fd.tactics) = 0 THEN TacticRequiredMsg ELSE ""

\* a validateStep that accepts an empty tactics list
validateStep_noTactics(stepIndex, fd) ==
  IF stepIndex = 0 /\ trim(fd.topic) = <<>> THEN TopicRequiredMsg ELSE ""

\* validateStep: the error it leaves in view state ("" when the step is valid)
validateStep(stepIndex, fd) ==
  IF stepIndex = 0 /\ trim(fd.topic) = <<>> THEN TopicRequiredMsg
  ELSE IF stepIndex = 1 /\ Len(fd.tactics) = 0 THEN TacticRequiredMsg
  ELSE ""

\* the handler, called on any step; last.arg is the step it was called on
handleNextStep ==
  /\ widget = Generator
  /\ LET msg == validateStep(currentStep, formData) IN
       /\ error' = msg
       /\ currentStep' = IF msg = "" /\ currentStep < Len(steps) - 1
                         THEN currentStep + 1 ELSE currentStep
  /\ last' = [Did("handleNextStep") EXCEPT !.arg = currentStep]
  /\ UNCHANGED <<widget, speech, uploader, uploads, formData, loading, content, showAdvanced, timers,
                 requests, newest, httpCount>>

\* a step back without the check for the first step
stepBack_unchecked(step) == step - 1

\* the step handlePrevStep leaves
stepBack(step) == IF step > 0 THEN step - 1 ELSE step

\* the handler, called on any step; last.arg is the step it was called on
handlePrevStep ==
  /\ widget = Generator
  /\ currentStep' = stepBack(currentStep)
  /\ error' = IF currentStep > 0 THEN "" ELSE error
  /\ last' = [Did("handlePrevStep") EXCEPT !.arg = currentStep]
  /\ UNCHANGED <<widget, speech, uploader, uploads, formData, loading, content, showAdvanced, timers,
                 requests, newest, httpCount>>

\* a reset that restores a wrong length
ClearedFormData_wrongLength ==
  [contentType |-> "strategy", topic |-> <<>>, tactics |-> <<>>,
   tone |-> "professional", length |-> "short", complexity |-> "intermediate",
   audience |-> "", keywords |-> "", examples |-> "yes", humorLevel |-> "none"]

\* the formData that clearForm sets
ClearedFormData ==
  [contentType |-> "strategy", topic |-> <<>>, tactics |-> <<>>,
   tone |-> "professional", length |-> "medium", complexity |-> "intermediate",
   audience |-> "", keywords |-> "", examples |-> "yes", humorLevel |-> "none"]

\* the handler, called on any step; last.arg is the formData it found
clearForm ==
  /\ widget = Generator
  /\ formData' = ClearedFormData
  /\ content' = ""
  /\ error' = ""
  /\ currentStep' = 0
  /\ showAdvanced' = FALSE
  /\ requests' = {[r EXCEPT !.cleared = TRUE] : r \in requests}
  /\ last' = [Did("clearForm") EXCEPT !.arg = formData]
  /\ UNCHANGED <<widget, speech, uploader, uploads, loading, timers, newest, httpCount>>

\* the JSON body of the request
Payload(fd) ==
  [contentType |-> fd.contentType, topic |-> fd.topic, tactics |-> fd.tactics,
   tone |-> fd.tone, length |-> fd.length, complexity |-> fd.complexity,
   audience |-> fd.audience, keywords |-> fd.keywords, examples |-> fd.examples,
   humorLevel |-> fd.humorLevel]

\* the check at the head of generateContent
canGenerate(fd) == ~(trim(fd.topic) = <<>> \/ Len(fd.tactics) = 0)

\* generateContent up to its await, reading the formData fd of its closure;
\* op and unattended are what last records of the call
generateContent(fd, op, unattended) ==
  IF ~canGenerate(fd)
  THEN /\ error' = IncompleteMsg
       /\ last' = [Did(op) EXCEPT !.arg = fd, !.unattended = unattended]
       /\ UNCHANGED <<loading, content, requests, httpCount>>
  ELSE /\ loading' = TRUE
       /\ error' = ""
       /\ content' = ""
       /\ httpCount' = httpCount + 1
       /\ requests' =
            {[r EXCEPT !.overlapped = TRUE, !.cleared = FALSE] : r \in requests}
              \cup {[id |-> httpCount + 1, overlapped |-> requests # {}, cleared |-> FALSE]}
       /\ last' = [Did(op) EXCEPT !.id = httpCount + 1, !.overlapped = requests # {},
                                  !.arg = fd, !.out = Payload(fd),
                                  !.unattended = unattended]

\* the navigation buttons, each rendered on the steps that have it
clickNextStep == currentStep < Len(steps) - 1 /\ handleNextStep
clickPrevStep == currentStep > 0 /\ handlePrevStep
clickReset == currentStep = Len(steps) - 1 /\ clearForm

\* INITIATE FORGE
clickGenerate ==
  /\ widget = Generator
  /\ currentStep = Len(steps) - 1
  /\ ~loading
  /\ generateContent(formData, "clickGenerate", FALSE)
  /\ UNCHANGED <<widget, speech, uploader, uploads, formData, currentStep, showAdvanced, timers, newest>>

\* a list of candidates that keeps the selected ones
unusedTactics_unfiltered(fd) == tacticalOptions

unusedTactics(fd) ==
  SelectSeq(tacticalOptions, LAMBDA t : t \notin Range(fd.tactics))

\* Optimize & Regenerate
\* pick is what Math.floor(Math.random() * unusedTactics.length) gives, from 0;
\* last.out is the tactics the call found
regenerateWithEnhancement(pick) ==
  /\ widget = Generator
  /\ content # ""
  /\ ~loading
  /\ IF Len(formData.tactics) > 0 /\ Len(unusedTactics(formData)) > 0
     THEN /\ pick < Len(unusedTactics(formData))
          /\ formData' = [formData EXCEPT
                            !.tactics = Append(@, unusedTactics(formData)[pick + 1])]
          /\ timers' = Append(timers, [formData |-> formData,
                                       added |-> unusedTactics(formData)[pick + 1]])
     ELSE /\ pick = 0
          /\ formData' = formData
          /\ timers' = Append(timers, [formData |-> formData, added |-> ""])
  /\ last' = [Did("regenerateWithEnhancement") EXCEPT !.out = formData.tactics]
  /\ UNCHANGED <<widget, speech, uploader, uploads, currentStep, loading, content, showAdvanced, error,
                 requests, newest, httpCount>>

\* the 100 ms timer of regenerateWithEnhancement fires
timerFires ==
  /\ widget = Generator
  /\ timers # <<>>
  /\ generateContent(Head(timers).formData, "timerFires", last.unattended)
  /\ timers' = Tail(timers)
  /\ UNCHANGED <<widget, speech, uploader, uploads, formData, currentStep, showAdvanced, newest>>

\* ------------------------------------------- the generate-content backend
Contents == {"c1", "c2"}

\* the statuses of the responses that are not OK
Statuses == {500, 503}

Responses ==
  {[kind |-> "ok", content |-> c, message |-> "", status |-> 200] : c \in Contents \cup {""}}
    \cup {[kind |-> "notOk", content |-> "", message |-> m, status |-> s] :
            m \in {"", "quota exceeded"}, s \in Statuses}
    \cup {[kind |-> "throwError", content |-> "", message |-> m, status |-> 0] :
            m \in {"", "Failed to fetch"}}
    \cup {[kind |-> "throwOther", content |-> "", message |-> "", status |-> 0]}

\* the try block after the await: the content it sets, or what it throws
tryBlock(resp) ==
  IF resp.kind \in {"throwError", "throwOther"}
  THEN [thrown |-> TRUE, isError |-> resp.kind = "throwError", message |-> resp.message,
        content |-> ""]
  ELSE IF resp.kind = "notOk"
  THEN [thrown |-> TRUE, isError |-> TRUE,
        message |-> IF resp.message # "" THEN resp.message ELSE ServerErrorMsg(resp.status),
        content |-> ""]
  ELSE IF resp.content = ""
  THEN [thrown |-> TRUE, isError |-> TRUE, message |-> NoContentMsg, content |-> ""]
  ELSE [thrown |-> FALSE, isError |-> FALSE, message |-> "", content |-> resp.content]

\* a catch block that sets no error
catchBlock_silent(t) == ""

\* a catch block without the fallback for an empty message
catchBlock_noFallback(t) ==
  IF t.isError THEN t.message ELSE UnexpectedMsg

\* the catch block: the error it sets
catchBlock(t) ==
  IF t.isError
  THEN IF t.message # "" THEN t.message ELSE GenerateFailedMsg
  ELSE UnexpectedMsg

\* a loading flag that is reset at the end of the try block only
finallyBlock_onlyOnSuccess(t) == t.thrown

\* the finally block: the loading flag it sets
finallyBlock(t) == FALSE


\* the continuation of generateContent after its await, for request r
requestCompletes(r, resp) ==
  /\ widget = Generator
  /\ r \in requests
  /\ LET t == tryBlock(resp) IN
       /\ content' = IF t.thrown THEN content ELSE t.content
       /\ error' = IF t.thrown THEN catchBlock(t) ELSE error
       /\ loading' = finallyBlock(t)
       /\ newest' = IF r.id > newest.id
                     THEN [id |-> r.id,
                           content |-> IF t.thrown THEN "" ELSE t.content,
                           error |-> IF t.thrown THEN catchBlock(t) ELSE ""]
                     ELSE newest
       /\ last' = [Did("requestCompletes") EXCEPT
                     !.id = r.id, !.overlapped = r.overlapped, !.arg = resp,
                     !.unattended = t.thrown \/ last.unattended]
  /\ requests' = requests \ {r}
  /\ UNCHANGED <<widget, speech, uploader, uploads, formData, currentStep, showAdvanced, timers, httpCount>>

\* ------------------------------------------------------------- download
FilePrefix ==
  <<"t", "a", "c", "t", "i", "c", "a", "l", "-", "c", "o", "n", "t", "e", "n", "t", "-">>
FileSuffix == <<".", "m", "d">>
Untitled == <<"u", "n", "t", "i", "t", "l", "e", "d">>

\* a name that replaces the first run of whitespace only (no g flag)
downloadName_firstRunOnly(topic) ==
  LET firstRun(s) ==
        IF \E i \in 1..Len(s) : IsWhitespace(s[i])
        THEN LET i == CHOOSE k \in 1..Len(s) :
                        IsWhitespace(s[k]) /\ \A j \in 1..(k - 1) : ~IsWhitespace(s[j])
             IN SubSeq(s, 1, i - 1) \o <<"-">> \o trimStart(SubSeq(s, i, Len(s)))
        ELSE s
      t == toLowerCase(firstRun(topic))
  IN FilePrefix \o (IF t # <<>> THEN t ELSE Untitled) \o FileSuffix

\* the name of the downloaded file
downloadName(topic) ==
  LET t == toLowerCase(replaceWhitespace(topic)) IN
    FilePrefix \o (IF t # <<>> THEN t ELSE Untitled) \o FileSuffix

downloadMarkdown ==
  /\ widget = Generator
  /\ last' = [Did("downloadMarkdown") EXCEPT
                !.out = IF content = "" THEN <<>> ELSE downloadName(formData.topic)]
  /\ UNCHANGED <<widget, speech, uploader, uploads, formData, currentStep, loading, content, showAdvanced, error,
                 timers, requests, newest, httpCount>>

\* ------------------------------------------------ fileUpload.tsx: data
Null == "null"

\* a File, by its name; its MIME type
Files == {"report.pdf", "notes.docx", "photo.png"}

fileType(f) ==
  IF f = "report.pdf" THEN "application/pdf"
  ELSE IF f = "notes.docx"
  THEN "application/vnd.openxmlformats-officedocument.wordprocessingml.document"
  ELSE "image/png"

acceptedTypes ==
  {"application/pdf",
   "application/vnd.openxmlformats-officedocument.wordprocessingml.document"}

UnsupportedMsg == "Unsupported file type. Please upload a PDF or DOCX file."
SelectFileMsg == "Please select a file first."
FailedMsg(endpoint) ==
  IF endpoint = "insights" THEN "Failed to insights. Please try again."
  ELSE "Failed to analyze. Please try again."
UnexpectedDuringMsg(endpoint) ==
  IF endpoint = "insights" THEN "An unexpected error occurred during insights."
  ELSE "An unexpected error occurred during analyze."

InitialUploader ==
  [loadingInsights |-> FALSE, loadingAnalysis |-> FALSE, fileName |-> "", file |-> Null,
   activeTab |-> "insights", insightData |-> Null, analysisData |-> Null,
   error |-> Null, isDragging |-> FALSE]

isLoading == uploader.loadingInsights \/ uploader.loadingAnalysis

\* the state fields that commonRequestConfig is given for an endpoint
dataField(endpoint) == IF endpoint = "insights" THEN "insightData" ELSE "analysisData"
loaderField(endpoint) == IF endpoint = "insights" THEN "loadingInsights" ELSE "loadingAnalysis"
tabOf(endpoint) == IF endpoint = "insights" THEN "insights" ELSE "analysis"

\* --------------------------------------------- fileUpload.tsx: handlers
handleFileSelection(u, selectedFile) ==
  IF fileType(selectedFile) \notin acceptedTypes
  THEN [u EXCEPT !.error = UnsupportedMsg, !.insightData = Null, !.analysisData = Null,
                 !.file = Null, !.fileName = ""]
  ELSE [u EXCEPT !.error = Null, !.insightData = Null, !.analysisData = Null,
                 !.file = selectedFile, !.fileName = selectedFile]

handleFileChange(selectedFile) ==
  /\ widget = Uploader
  /\ uploader' = handleFileSelection(uploader, selectedFile)
  /\ last' = Did("handleFileChange")
  /\ UNCHANGED <<widget, speech, genVars, uploads, httpCount>>

handleDragEnter ==
  /\ widget = Uploader
  /\ uploader' = [uploader EXCEPT !.isDragging = TRUE]
  /\ last' = Did("handleDragEnter")
  /\ UNCHANGED <<widget, speech, genVars, uploads, httpCount>>

handleDragLeave ==
  /\ widget = Uploader
  /\ uploader' = [uploader EXCEPT !.isDragging = FALSE]
  /\ last' = Did("handleDragLeave")
  /\ UNCHANGED <<widget, speech, genVars, uploads, httpCount>>

\* droppedFile is Null when the drop carries no file
handleDrop(droppedFile) ==
  /\ widget = Uploader
  /\ uploader' = IF droppedFile = Null
                 THEN [uploader EXCEPT !.isDragging = FALSE]
                 ELSE handleFileSelection([uploader EXCEPT !.isDragging = FALSE], droppedFile)
  /\ last' = Did("handleDrop")
  /\ UNCHANGED <<widget, speech, genVars, uploads, httpCount>>

\* a start that does not clear the earlier result
requestStarts_keepsData(u, endpoint) ==
  [u EXCEPT ![loaderField(endpoint)] = TRUE, !.error = Null]

\* what the handler sets before its await
requestStarts(u, endpoint) ==
  [u EXCEPT ![loaderField(endpoint)] = TRUE, ![dataField(endpoint)] = Null, !.error = Null]

\* the handler made by commonRequestConfig, up to its await; its button is
\* disabled without a file and while a request is loading
commonRequestConfig(endpoint) ==
  /\ widget = Uploader
  /\ uploader.file # Null /\ ~isLoading
  /\ IF uploader.file = Null
     THEN /\ uploader' = [uploader EXCEPT !.error = SelectFileMsg]
          /\ last' = [Did("commonRequestConfig") EXCEPT !.arg = endpoint]
          /\ UNCHANGED <<uploads, httpCount>>
     ELSE /\ uploader' = requestStarts(uploader, endpoint)
          /\ httpCount' = httpCount + 1
          /\ uploads' = {[r EXCEPT !.overlapped = TRUE] : r \in uploads}
                          \cup {[id |-> httpCount + 1, endpoint |-> endpoint,
                                 overlapped |-> uploads # {}]}
          /\ last' = [Did("commonRequestConfig") EXCEPT !.id = httpCount + 1,
                                                        !.overlapped = uploads # {},
                                                        !.arg = endpoint]
  /\ UNCHANGED <<widget, speech, genVars>>

handleInsights == commonRequestConfig("insights")
handleAnalyze == commonRequestConfig("analyze")

UploadResponses ==
  {[kind |-> "ok", data |-> "result-1", error |-> Null],
   [kind |-> "ok", data |-> "result-2", error |-> Null],
   [kind |-> "axiosError", data |-> Null, error |-> Null],
   [kind |-> "axiosError", data |-> Null, error |-> "Could not parse the document"],
   [kind |-> "otherError", data |-> Null, error |-> Null]}

\* the catch block: the error it sets
uploadCatch(endpoint, resp) ==
  IF resp.kind = "axiosError"
  THEN IF resp.error # Null THEN resp.error ELSE FailedMsg(endpoint)
  ELSE UnexpectedDuringMsg(endpoint)

\* what the handler sets after its await
requestEnds(u, endpoint, resp) ==
  IF resp.kind = "ok"
  THEN [u EXCEPT ![dataField(endpoint)] = resp.data, !.activeTab = tabOf(endpoint),
                 ![loaderField(endpoint)] = FALSE]
  ELSE [u EXCEPT !.error = uploadCatch(endpoint, resp), ![loaderField(endpoint)] = FALSE]

uploadCompletes(r, resp) ==
  /\ widget = Uploader
  /\ r \in uploads
  /\ uploader' = requestEnds(uploader, r.endpoint, resp)
  /\ uploads' = uploads \ {r}
  /\ last' = [Did("uploadCompletes") EXCEPT
                !.id = r.id, !.overlapped = r.overlapped, !.arg = resp, !.out = r.endpoint,
                !.unattended = resp.kind # "ok" \/ last.unattended]
  /\ UNCHANGED <<widget, speech, genVars, httpCount>>

\* the tab buttons, rendered with a result and disabled without their own
setActiveTab(tab) ==
  /\ widget = Uploader
  /\ uploader[IF tab = "insights" THEN "insightData" ELSE "analysisData"] # Null
  /\ uploader' = [uploader EXCEPT !.activeTab = tab]
  /\ last' = Did("setActiveTab")
  /\ UNCHANGED <<widget, speech, genVars, uploads, httpCount>>

\* ------------------------------------- ProfessionalSpeechInput: data
speakers == <<"Speaker A", "Speaker B">>
defaultLanguage == "en-US"
supportedLanguages == <<"en-US", "es-ES", "fr-FR", "de-DE", "ja-JP">>

NotSupportedMsg ==
  "Speech recognition is not supported in your browser. Please use Chrome or Edge for optimal performance."
\* `Speech recognition error: ${event.error}. Please check microphone permissions.`
RecognitionErrorMsg(err) ==
  "Speech recognition error: " \o err \o ". Please check microphone permissions."
StartFailedMsg ==
  "Failed to start speech recognition. Please ensure microphone access is granted and no other application is using it."

\* the state hooks on the first render, in a browser that has
\* webkitSpeechRecognition (supported) or not. With them: recognitionRef, Null
\* or the state of the recognizer it holds ("idle" until start() has returned,
\* "started" from then on); handlerSpeaker, the currentSpeaker of the render
\* whose processNewTranscript the onresult handler of that recognizer calls;
\* replaced, the recognizers created earlier, which the cleanup of the effect
\* stopped and which keep their handlers; pending, the entries under
\* analysis; effectDue, whether the effect on [transcript] has yet to run for
\* the committed transcript
InitialSpeech(supported) ==
  [isListening |-> FALSE, currentSpeaker |-> speakers[1], transcript |-> <<>>,
   language |-> defaultLanguage, overallSentiment |-> "", error |-> Null,
   supported |-> supported, recognitionRef |-> Null,
   handlerSpeaker |-> speakers[1], replaced |-> {}, pending |-> <<>>,
   effectDue |-> FALSE]

\* the recognizers created so far, each with the speaker its onresult handler
\* sees and whether start() has returned on it
recognizers(sp) ==
  sp.replaced \cup
    IF sp.recognitionRef = Null THEN {}
    ELSE {[handlerSpeaker |-> sp.handlerSpeaker, started |-> sp.recognitionRef = "started"]}

indexOf(seq, x) == CHOOSE i \in 1..Len(seq) : seq[i] = x

\* --------------------------------- ProfessionalSpeechInput: effects
\* the effect on [language], run for the render sp: without
\* webkitSpeechRecognition it sets the error and installs nothing, with it it
\* creates a recognizer whose onresult calls the processNewTranscript of sp.
\* The cleanup of the previous run has stopped the recognizer it replaces and
\* removed none of its handlers
recognitionEffect(sp) ==
  IF ~sp.supported
  THEN [sp EXCEPT !.error = NotSupportedMsg]
  ELSE [sp EXCEPT !.replaced = recognizers(sp), !.recognitionRef = "idle",
                  !.handlerSpeaker = sp.currentSpeaker]

\* updateOverallAnalysis: the overall sentiment of a transcript
overallSentimentOf(transcript) ==
  LET count(x) == Cardinality({i \in 1..Len(transcript) : transcript[i].sentiment = x})
      positiveCount == count("positive")
      negativeCount == count("negative")
      mixedCount == count("mixed")
  IN IF Len(transcript) = 0 THEN ""
     ELSE IF positiveCount > negativeCount /\ positiveCount > mixedCount THEN "positive"
     ELSE IF negativeCount > positiveCount /\ negativeCount > mixedCount THEN "negative"
     ELSE IF mixedCount > 0 THEN "mixed"
     ELSE IF positiveCount > 0 THEN "positive"
     ELSE IF negativeCount > 0 THEN "negative"
     ELSE "neutral"

\* the effect on [transcript], run for the render sp
updateOverallAnalysis(sp) ==
  [sp EXCEPT !.overallSentiment = overallSentimentOf(sp.transcript), !.effectDue = FALSE]

\* React runs an effect that is still due before it renders the next update
flushEffects(sp) == IF sp.effectDue THEN updateOverallAnalysis(sp) ELSE sp

\* the component once mounted: both effects have run after the first render
MountedSpeech(supported) ==
  updateOverallAnalysis(recognitionEffect(InitialSpeech(supported)))

\* ---------------------------------- ProfessionalSpeechInput: handlers
\* start() throws or not; without a recognizer the assignment to
\* recognitionRef.current.lang throws
toggleListening(startThrows) ==
  /\ widget = SpeechInput
  /\ LET sp == flushEffects(speech)
     IN speech' =
          IF sp.isListening
          THEN [sp EXCEPT !.isListening = FALSE]
          ELSE IF sp.recognitionRef = Null \/ startThrows
          THEN [sp EXCEPT !.error = StartFailedMsg, !.isListening = FALSE]
          ELSE [sp EXCEPT !.error = Null, !.isListening = TRUE,
                          !.recognitionRef = "started"]
  /\ last' = Did("toggleListening")
  /\ UNCHANGED <<widget, genVars, uploader, uploads, httpCount>>

\* the speaker select
setCurrentSpeaker(s) ==
  /\ widget = SpeechInput
  /\ s # speech.currentSpeaker
  /\ speech' = [flushEffects(speech) EXCEPT !.currentSpeaker = s]
  /\ last' = Did("setCurrentSpeaker")
  /\ UNCHANGED <<widget, genVars, uploader, uploads, httpCount>>

rotateSpeaker ==
  /\ widget = SpeechInput
  /\ LET currentIndex == indexOf(speakers, speech.currentSpeaker) - 1
         nextIndex == (currentIndex + 1) % Len(speakers)
     IN speech' = [flushEffects(speech) EXCEPT !.currentSpeaker = speakers[nextIndex + 1]]
  /\ last' = Did("rotateSpeaker")
  /\ UNCHANGED <<widget, genVars, uploader, uploads, httpCount>>

\* the language select, disabled while listening; the effect on [language]
\* runs again for the new render
setLanguage(l) ==
  /\ widget = SpeechInput
  /\ ~speech.isListening
  /\ l # speech.language
  /\ speech' = recognitionEffect([flushEffects(speech) EXCEPT !.language = l])
  /\ last' = Did("setLanguage")
  /\ UNCHANGED <<widget, genVars, uploader, uploads, httpCount>>

\* the entry processNewTranscript builds; selected records the speaker that
\* was selected when the utterance was recognized
newEntry(rec, sp, text) ==
  [speaker |-> rec.handlerSpeaker, text |-> text, sentiment |-> "", keywords |-> <<>>,
   selected |-> sp.currentSpeaker]

\* onresult of the recognizer rec, with a final result whose transcript is
\* text
onresult(rec, text) ==
  /\ widget = SpeechInput
  /\ rec \in recognizers(speech)
  /\ speech' = IF trim(text) # <<>>
               THEN [speech EXCEPT !.pending = Append(@, newEntry(rec, speech, text))]
               ELSE speech
  /\ last' = [Did("onresult") EXCEPT !.arg = text]
  /\ UNCHANGED <<widget, genVars, uploader, uploads, httpCount>>

\* onerror of any recognizer, with event.error = err
onerror(err) ==
  /\ widget = SpeechInput
  /\ recognizers(speech) # {}
  /\ speech' = [flushEffects(speech) EXCEPT !.error = RecognitionErrorMsg(err),
                                            !.isListening = FALSE]
  /\ last' = [Did("onerror") EXCEPT !.arg = err]
  /\ UNCHANGED <<widget, genVars, uploader, uploads, httpCount>>

\* analyzeTranscript on a text with none of the listed words
analyzeTranscript(entry) == [entry EXCEPT !.sentiment = "neutral", !.keywords = <<>>]

\* the continuation of processNewTranscript after its await: setTranscript;
\* the effect on [transcript] is due for the render that follows
analysisDone ==
  /\ widget = SpeechInput
  /\ speech.pending # <<>>
  /\ speech' = [flushEffects(speech) EXCEPT
                  !.transcript = Append(@, analyzeTranscript(Head(speech.pending))),
                  !.pending = Tail(@), !.effectDue = TRUE]
  /\ last' = Did("analysisDone")
  /\ UNCHANGED <<widget, genVars, uploader, uploads, httpCount>>

\* the effect on [transcript] runs after the render that analysisDone caused
transcriptEffect ==
  /\ widget = SpeechInput
  /\ speech.effectDue
  /\ speech' = updateOverallAnalysis(speech)
  /\ last' = Did("transcriptEffect")
  /\ UNCHANGED <<widget, genVars, uploader, uploads, httpCount>>

\* ------------------------------------------------------- specification
InitialState ==
  /\ speech \in {MountedSpeech(supported) :
                   supported \in IF widget = SpeechInput THEN BOOLEAN ELSE {TRUE}}
  /\ uploader = InitialUploader
  /\ uploads = {}
  /\ formData = InitialFormData
  /\ currentStep = 0
  /\ loading = FALSE
  /\ content = ""
  /\ showAdvanced = FALSE
  /\ error = ""
  /\ timers = <<>>
  /\ requests = {}
  /\ httpCount = 0
  /\ newest = [id |-> 0, content |-> "", error |-> ""]
  /\ last = Did("mount")

Init == widget \in {Generator, Uploader} /\ InitialState

\* ---- Spec: the requests, the timers and their interleavings, over a few
\* form values
SomeTopics == {<<>>, <<"A">>}
SomeTactics == {"swot"}
SomePicks == {0, 1}
\* the responses of Spec: each content, and a fetch that throws
SomeResponses ==
  {r \in Responses : r.message = "" /\ (r.kind = "throwError" \/ r.content # "")}
\* the responses of FairSpec: one for each way the request can end
FairResponses == {r \in Responses : r.message = "" /\ r.content \in {"", "c1"}}

\* the steps of the content generator, with at most maxReq requests issued
GeneratorSteps(maxReq, responses) ==
  \/ \E v \in SomeTopics : handleChange("topic", v)
  \/ \E v \in SomeTactics : handleTacticSelect(v)
  \/ clickNextStep
  \/ clickPrevStep
  \/ clickReset
  \/ httpCount < maxReq /\ clickGenerate
  \/ Len(timers) < MaxTimers /\ Len(formData.tactics) <= MaxTactics
       /\ \E pick \in SomePicks : regenerateWithEnhancement(pick)
  \/ httpCount < maxReq /\ timerFires
  \/ \E r \in requests : \E resp \in responses : requestCompletes(r, resp)

\* the steps of the file uploader, with at most maxReq requests issued
UploaderSteps(maxReq) ==
  \/ \E f \in Files : handleFileChange(f)
  \/ handleDragEnter
  \/ handleDragLeave
  \/ \E f \in Files \cup {Null} : handleDrop(f)
  \/ httpCount < maxReq /\ handleInsights
  \/ httpCount < maxReq /\ handleAnalyze
  \/ \E r \in uploads : \E resp \in UploadResponses : uploadCompletes(r, resp)
  \/ \E tab \in {"insights", "analysis"} : setActiveTab(tab)

GeneratorNext == GeneratorSteps(MaxReq, SomeResponses)

UploaderNext == UploaderSteps(MaxReq)

Next == GeneratorNext \/ UploaderNext

Spec == Init /\ [][Next]_vars

\* ---- SpecForm: the form, its texts and the download, with requests one
\* after the other (the submit control is disabled while one is in flight)
SomeEdits == {<<"contentType", "tactical">>, <<"contentType", "strategy">>,
              <<"tone", "urgent">>, <<"tone", "professional">>,
              <<"keywords", "risk">>, <<"keywords", "">>}

InitForm == Init /\ widget = Generator

NextForm ==
  \/ \E v \in Strings(MaxLen) : handleChange("topic", v)
  \/ \E e \in SomeEdits : handleChange(e[1], e[2])
  \/ \E v \in SomeTactics : handleTacticSelect(v)
  \/ toggleAdvanced
  \/ clickNextStep
  \/ clickPrevStep
  \/ clickReset
  \/ httpCount < MaxFormReq /\ clickGenerate
  \/ \E r \in requests : \E resp \in Responses : requestCompletes(r, resp)
  \/ downloadMarkdown

SpecForm == InitForm /\ [][NextForm]_vars

\* ---- SpecTactics: the tactics list, with every request succeeding and one
\* regeneration at a time
OkResponses == {r \in Responses : r.content = "c1"}

NextTactics ==
  \/ \E v \in SomeTopics : handleChange("topic", v)
  \/ \E v \in SomeTactics : handleTacticSelect(v)
  \/ clickNextStep
  \/ clickPrevStep
  \/ httpCount < 1 /\ clickGenerate
  \/ timers = <<>> /\ requests = {}
       /\ (\E pick \in SomePicks : regenerateWithEnhancement(pick))
  \/ httpCount < MaxRegenReq /\ timerFires
  \/ \E r \in requests : \E resp \in OkResponses : requestCompletes(r, resp)

SpecTactics == InitForm /\ [][NextTactics]_vars

\* ---- SpecUpload: the file uploader alone
InitUpload == widget = Uploader /\ InitialState

SpecUpload == InitUpload /\ [][UploaderNext]_vars

\* ---- SpecSteps: the step handlers called on any step
NextSteps ==
  \/ \E v \in Strings(MaxLen) : handleChange("topic", v)
  \/ \E e \in SomeEdits : handleChange(e[1], e[2])
  \/ \E v \in SomeTactics : handleTacticSelect(v)
  \/ handleNextStep
  \/ handlePrevStep
  \/ clearForm

SpecSteps == InitForm /\ [][NextSteps]_vars

\* ---- SpecSpeech: the speech input
SomeTexts == {<<>>, <<" ">>, <<"A">>}
SomeLanguages == {"en-US", "es-ES"}
SomeErrors == {"no-speech", "not-allowed"}

InitSpeech == widget = SpeechInput /\ InitialState

\* a recognizer delivers events once start() has returned on it, and may
\* still do so after stop()
StartedRecognizers == {rec \in recognizers(speech) : rec.started}

NextSpeech ==
  \/ \E startThrows \in BOOLEAN : toggleListening(startThrows)
  \/ \E s \in Range(speakers) : setCurrentSpeaker(s)
  \/ rotateSpeaker
  \/ \E l \in SomeLanguages : setLanguage(l)
  \/ /\ Len(speech.transcript) + Len(speech.pending) < MaxUtterances
     /\ \E rec \in StartedRecognizers : \E text \in SomeTexts : onresult(rec, text)
  \/ StartedRecognizers # {} /\ (\E err \in SomeErrors : onerror(err))
  \/ analysisDone
  \/ transcriptEffect

SpecSpeech == InitSpeech /\ [][NextSpeech]_vars

\* ---- FairSpec: the steps of Spec with at most MaxFairReq requests, every
\* request in flight completing
FairNext == GeneratorSteps(MaxFairReq, FairResponses) \/ UploaderSteps(MaxFairReq)

FairSpec ==
  Init /\ [][FairNext]_vars
    /\ WF_vars(\E r \in requests : \E resp \in FairResponses : requestCompletes(r, resp))

\* =================================================================== claims
\* "empty or only whitespace", said without trim
Blank(s) == \A i \in 1..Len(s) : s[i] = " "

\* C1: handleNextStep at step 0 with a blank topic leaves currentStep at 0 and
\* sets a non-empty error; with a non-blank topic it moves currentStep to 1
\* and leaves error empty.
C1_NextStepAtCore ==
  [][(last'.op = "handleNextStep" /\ currentStep = 0)
       => IF Blank(formData.topic)
          THEN currentStep' = 0 /\ error' # ""
          ELSE currentStep' = 1 /\ error' = ""]_vars

\* a topic of whitespace only was refused at step 0
C1_Witness ==
  /\ last.op = "handleNextStep"
  /\ currentStep = 0
  /\ formData.topic # <<>>
  /\ error = TopicRequiredMsg

\* C2: generateContent called while the topic is blank or the tactics list is
\* empty issues no HTTP request, sets error to a non-empty message, and leaves
\* loading false and content unchanged. The call is the INITIATE FORGE click
\* or the regenerate timer, and the topic and tactics are those the call
\* reads.
C2_RejectedGenerate ==
  [][(last'.op \in {"clickGenerate", "timerFires"}
        /\ (Blank(last'.arg.topic) \/ last'.arg.tactics = <<>>))
       => /\ httpCount' = httpCount
          /\ requests' = requests
          /\ last'.id = 0
          /\ error' # ""
          /\ ~loading'
          /\ content' = content]_vars

\* what holds of every rejected call: it issues no request, sets a non-empty
\* error and changes neither loading nor content
RejectedGenerateChangesNothingElse ==
  [][(last'.op \in {"clickGenerate", "timerFires"}
        /\ (Blank(last'.arg.topic) \/ last'.arg.tactics = <<>>))
       => /\ httpCount' = httpCount
          /\ requests' = requests
          /\ last'.id = 0
          /\ error' # ""
          /\ loading' = loading
          /\ content' = content]_vars

\* generateContent was called with a blank topic while content was shown
C2_Witness ==
  /\ last.op = "timerFires"
  /\ Blank(last.arg.topic)
  /\ last.arg.tactics # <<>>
  /\ content # ""
  /\ error = IncompleteMsg

\* the ways a generate-content request fails: a network exception, a non-OK
\* status, an OK response with no content
Failed(resp) ==
  \/ resp.kind \in {"throwError", "throwOther", "notOk"}
  \/ resp.kind = "ok" /\ resp.content = ""

\* C3: when a generate-content request fails and no other request overlaps
\* it, the state has a non-empty error, empty content and loading false.
C3_FailedRequest ==
  (last.op = "requestCompletes" /\ Failed(last.arg) /\ ~last.overlapped)
    => error # "" /\ content = "" /\ ~loading

\* a request that no other overlapped ended in a network exception that
\* carried no message
C3_Witness ==
  /\ last.op = "requestCompletes"
  /\ last.arg.kind = "throwError"
  /\ last.arg.message = ""
  /\ ~last.overlapped
  /\ error = GenerateFailedMsg

\* C4: every generateContent call that sets loading to true is followed by a
\* state in which loading is false, however the request ends, given that the
\* request completes.
C4_LoadingEnds == loading ~> ~loading

\* a request ended in a non-OK status and the submit control is enabled again
C4_Witness ==
  /\ last.op = "requestCompletes"
  /\ last.arg.kind = "notOk"
  /\ ~loading

\* the handler calls that may send a request
Calls == {"clickGenerate", "timerFires", "commonRequestConfig"}
Completions == {"requestCompletes", "uploadCompletes"}

\* each generateContent call that passes validation, and each insights or
\* analyze call with a file selected, issues exactly one HTTP request; no
\* other step issues any, and a completion takes its request out of flight
C5_OneRequestPerCall ==
  /\ (last'.op \in {"clickGenerate", "timerFires"}
        /\ ~Blank(last'.arg.topic) /\ last'.arg.tactics # <<>>)
       => /\ httpCount' = httpCount + 1
          /\ Cardinality(requests') = Cardinality(requests) + 1
  /\ (last'.op = "commonRequestConfig" /\ uploader.file # Null)
       => /\ httpCount' = httpCount + 1
          /\ Cardinality(uploads') = Cardinality(uploads) + 1
  /\ httpCount' # httpCount
       => /\ httpCount' = httpCount + 1
          /\ last'.op \in Calls
          /\ last'.id = httpCount'
  /\ last'.op \in Completions
       => /\ httpCount' = httpCount
          /\ Cardinality(requests') + Cardinality(uploads')
               = Cardinality(requests) + Cardinality(uploads) - 1

\* C5: there is no automatic retry: each generateContent call that passes
\* validation and each insights or analyze call with a file selected issues
\* exactly one HTTP request, and after a failed request no further request is
\* issued until the user performs another action.
C5_NoRequestUntilUserActs ==
  [][C5_OneRequestPerCall /\ (httpCount' # httpCount => ~last'.unattended)]_vars

\* what the handlers do guarantee: one request per call, and a request that
\* follows a failure with no user action in between is sent by a regenerate
\* timer that was pending when the request failed
OneRequestPerCallOrPendingTimer ==
  [][/\ C5_OneRequestPerCall
     /\ (httpCount' # httpCount /\ last'.unattended)
          => last'.op = "timerFires" /\ last.unattended /\ timers # <<>>]_vars

\* a request failed and, with no user action since, a pending regenerate
\* timer sent the next one
C5_Witness ==
  /\ last.op = "timerFires"
  /\ last.id > 0
  /\ last.unattended

\* C6: when two generate-content requests overlap, once both have completed
\* the content and error in view state are those produced by the request
\* that was started last.
C6_LastRequestWins ==
  (last.op = "requestCompletes" /\ last.overlapped /\ requests = {})
    => content = newest.content /\ error = newest.error

\* C7: immediately after clearForm every formData field has its initial
\* default, content and error are empty, currentStep is 0 and showAdvanced
\* is false, whatever the state before.
C7_ClearFormResets ==
  last.op = "clearForm"
    => /\ formData = InitialFormData
       /\ formData.topic = <<>> /\ formData.tactics = <<>>
       /\ formData.contentType = "strategy" /\ formData.tone = "professional"
       /\ formData.length = "medium" /\ formData.complexity = "intermediate"
       /\ formData.audience = "" /\ formData.keywords = ""
       /\ formData.examples = "yes" /\ formData.humorLevel = "none"
       /\ content = ""
       /\ error = ""
       /\ currentStep = 0
       /\ ~showAdvanced

\* clearForm ran on a form with edited fields
C7_Witness ==
  /\ last.op = "clearForm"
  /\ last.arg.topic # <<>>
  /\ last.arg.tactics # <<>>
  /\ last.arg.tone # "professional"
  /\ last.arg.keywords # ""

\* C8: the body of every generate-content request carries exactly the ten
\* fields, each equal to the formData value of the form state shown when the
\* request is sent.
C8_PayloadIsFormData ==
  (last.op \in {"clickGenerate", "timerFires"} /\ last.id > 0)
    => /\ DOMAIN last.out = {"contentType", "topic", "tactics", "tone", "length",
                             "complexity", "audience", "keywords", "examples",
                             "humorLevel"}
       /\ \A f \in DOMAIN last.out : last.out[f] = formData[f]

\* the topic with every run of whitespace replaced by one '-' and lower-cased:
\* the whitespace that follows whitespace is dropped, the rest becomes '-'
ExpectedStem(topic) ==
  LET kept == SelectSeq([i \in 1..Len(topic) |-> i],
                        LAMBDA i : ~(topic[i] = " " /\ i > 1 /\ topic[i - 1] = " "))
  IN [k \in 1..Len(kept) |->
        IF topic[kept[k]] = " " THEN "-"
        ELSE IF topic[kept[k]] = "A" THEN "a" ELSE topic[kept[k]]]

\* C9: downloadMarkdown does nothing when content is empty; otherwise the
\* file is named 'tactical-content-<t>.md', <t> the topic with every run of
\* whitespace replaced by one '-' and lower-cased, 'untitled' when that is
\* empty.
C9_DownloadName ==
  last.op = "downloadMarkdown"
    => IF content = ""
       THEN last.out = <<>>
       ELSE last.out =
              <<"t", "a", "c", "t", "i", "c", "a", "l", "-",
                "c", "o", "n", "t", "e", "n", "t", "-">>
              \o (IF ExpectedStem(formData.topic) = <<>>
                  THEN <<"u", "n", "t", "i", "t", "l", "e", "d">>
                  ELSE ExpectedStem(formData.topic))
              \o <<".", "m", "d">>

\* a file was downloaded for a topic with two runs of whitespace
C9_Witness ==
  /\ last.op = "downloadMarkdown"
  /\ content # ""
  /\ formData.topic = <<" ", "A", " ">>
  /\ Len(last.out) = Len(FilePrefix) + Len(FileSuffix) + 3

\* C10: when an insights or analyze request fails, the state afterwards has
\* a non-null error, the loading flag of that request false and the result
\* of that request's kind null; the result of the other kind is unchanged.
C10_FailedUpload ==
  [][(last'.op = "uploadCompletes" /\ last'.arg.kind # "ok")
       => /\ uploader'.error # Null
          /\ IF last'.out = "insights"
             THEN /\ ~uploader'.loadingInsights
                  /\ uploader'.insightData = Null
                  /\ uploader'.analysisData = uploader.analysisData
             ELSE /\ ~uploader'.loadingAnalysis
                  /\ uploader'.analysisData = Null
                  /\ uploader'.insightData = uploader.insightData]_vars

\* an analyze request failed while an insights result was shown
C10_Witness ==
  /\ last.op = "uploadCompletes"
  /\ last.arg.kind = "axiosError"
  /\ last.out = "analyze"
  /\ uploader.insightData # Null
  /\ uploader.analysisData = Null

\* C11: every transcript entry carries the speaker that was selected when its
\* utterance was recognized, so entries for utterances after a change of
\* speaker carry the new speaker.
C11_EntryCarriesSelectedSpeaker ==
  \A i \in 1..Len(speech.transcript) :
    speech.transcript[i].speaker = speech.transcript[i].selected

\* C12: the generateContent call that regenerateWithEnhancement delays runs
\* after the tactics update: the request it sends has the newly added tactic
\* in its tactics field.
C12_DelayedCallSeesAddedTactic ==
  [][(last'.op = "timerFires" /\ last'.id > 0 /\ Head(timers).added # "")
       => Head(timers).added \in Range(last'.out.tactics)]_vars

\* C13: handleNextStep at step 1 with an empty tactics list leaves currentStep
\* at 1 and sets a non-empty error; with at least one tactic it moves to step
\* 2 and leaves error empty; at step 2 it always moves to step 3.
C13_NextStepAtFrameworks ==
  [][last'.op = "handleNextStep"
       => /\ currentStep = 1
               => IF Len(formData.tactics) = 0
                  THEN currentStep' = 1 /\ error' # ""
                  ELSE currentStep' = 2 /\ error' = ""
          /\ currentStep = 2 => currentStep' = 3]_vars

\* Next Step was clicked on step 1 with no framework selected
C13_Witness ==
  /\ last.op = "handleNextStep"
  /\ last.arg = 1
  /\ currentStep = 1
  /\ formData.tactics = <<>>
  /\ error = TacticRequiredMsg

\* C14: currentStep is always one of 0, 1, 2, 3 after any sequence of
\* handleNextStep, handlePrevStep and clearForm; each call changes it by at
\* most one step (clearForm sets it to 0); handlePrevStep at step 0 and
\* handleNextStep at step 3 leave it unchanged.
C14_StepInRange ==
  [][/\ currentStep' \in {0, 1, 2, 3}
     /\ last'.op = "handleNextStep" => currentStep' - currentStep \in {0, 1}
     /\ last'.op = "handlePrevStep" => currentStep' - currentStep \in {0, -1}
     /\ last'.op = "clearForm" => currentStep' = 0
     /\ (last'.op = "handlePrevStep" /\ currentStep = 0) => currentStep' = 0
     /\ (last'.op = "handleNextStep" /\ currentStep = 3) => currentStep' = 3]_vars

\* handlePrevStep was called on step 0
C14_Witness ==
  /\ last.op = "handlePrevStep"
  /\ last.arg = 0
  /\ currentStep = 0

\* C15: in every state reached through the rendered controls, currentStep >= 1
\* implies that the topic is not blank and currentStep >= 2 implies that
\* tactics is not empty, so the generate step is reached only with both
\* required fields filled.
C15_StepsImplyRequiredFields ==
  /\ currentStep >= 1 => ~Blank(formData.topic)
  /\ currentStep >= 2 => Len(formData.tactics) > 0

\* the generate step, reached with a topic that has whitespace around it
C15_Witness ==
  /\ currentStep = 3
  /\ last.op = "handleNextStep"
  /\ formData.topic = <<" ", "A", " ">>
  /\ formData.tactics # <<>>

\* C16: at most one generate-content request is in flight at any time, and
\* loading is true whenever a request is in flight, under any interleaving of
\* clicks on INITIATE FORGE and Optimize & Regenerate with the regenerate
\* timer and request completions.
C16_OneRequestInFlight ==
  /\ Cardinality(requests) <= 1
  /\ requests # {} => loading

\* C17: after clearForm, content stays empty and the form stays at its
\* defaults until the user starts a new generateContent: a request that was
\* in flight when clearForm ran does not write content or error into the
\* reset form.
C17_ResetSurvivesCompletion ==
  [][(last'.op = "requestCompletes"
        /\ \E r \in requests : r.id = last'.id /\ r.cleared
        /\ content = "" /\ error = "" /\ formData = InitialFormData)
       => content' = "" /\ error' = "" /\ formData' = InitialFormData]_vars

NoDuplicates(seq) == \A i, j \in 1..Len(seq) : seq[i] = seq[j] => i = j
Without(seq, v) == SelectSeq(seq, LAMBDA x : x # v)

\* C18: handleTacticSelect(v) removes v when it is selected and appends it
\* when it is not, leaving every other tactic and every other field of
\* formData unchanged, so two consecutive calls with the same v restore the
\* selected set; after any handleTacticSelect or regenerateWithEnhancement
\* call tactics has no duplicate and only values of tacticalOptions.
C18_TacticToggle ==
  [][/\ last'.op = "handleTacticSelect"
          => /\ IF last'.arg \in Range(formData.tactics)
                THEN last'.arg \notin Range(formData'.tactics)
                     /\ formData'.tactics = Without(formData.tactics, last'.arg)
                ELSE formData'.tactics = formData.tactics \o <<last'.arg>>
             /\ Without(formData'.tactics, last'.arg) = Without(formData.tactics, last'.arg)
             /\ [formData' EXCEPT !.tactics = formData.tactics] = formData
     /\ (last.op = "handleTacticSelect" /\ last'.op = "handleTacticSelect"
           /\ last'.arg = last.arg)
          => Range(formData'.tactics) = Range(last.out)
     /\ last'.op \in {"handleTacticSelect", "regenerateWithEnhancement"}
          => /\ NoDuplicates(formData'.tactics)
             /\ Range(formData'.tactics) \subseteq Range(tacticalOptions)]_vars

\* a selected framework was clicked again and left a list of two others
C18_Witness ==
  /\ last.op = "handleTacticSelect"
  /\ last.arg \in Range(last.out)
  /\ Len(last.out) = 3
  /\ last.out[1] = last.arg
  /\ Len(formData.tactics) = 2

\* C19: regenerateWithEnhancement adds exactly one tactic that was not
\* selected when tactics is non-empty and fewer than all eight options are
\* selected, and leaves tactics unchanged when tactics is empty or all eight
\* are selected; in every case it schedules exactly one generateContent call.
C19_RegenerateAddsOne ==
  [][last'.op = "regenerateWithEnhancement"
       => /\ IF Len(formData.tactics) > 0 /\ Cardinality(Range(formData.tactics)) < 8
             THEN \E t \in Range(tacticalOptions) \ Range(formData.tactics) :
                    formData'.tactics = formData.tactics \o <<t>>
             ELSE formData'.tactics = formData.tactics
          /\ [formData' EXCEPT !.tactics = formData.tactics] = formData
          /\ Len(timers') = Len(timers) + 1
          /\ SubSeq(timers', 1, Len(timers)) = timers
          /\ httpCount' = httpCount /\ requests' = requests]_vars

\* Optimize & Regenerate was clicked with all eight frameworks selected
C19_Witness ==
  /\ last.op = "regenerateWithEnhancement"
  /\ Len(last.out) = 8
  /\ formData.tactics = last.out
  /\ timers # <<>>

\* a validated generateContent call sent its request
Sent == last'.op \in {"clickGenerate", "timerFires"} /\ last'.id > 0
\* the only call in progress got its response
SoleCallFinished == last'.op = "requestCompletes" /\ ~last'.overlapped
OkWithContent(resp) == resp.kind = "ok" /\ resp.content # ""

\* C20: generateContent clears content and error before sending; when it is
\* the only call in progress and the response is OK with a non-empty content
\* field, the state afterwards has content equal to that field, error empty
\* and loading false, so exactly one of content and error is non-empty once a
\* validated call has finished.
C20_ExactlyOneOfContentAndError ==
  [][/\ Sent => content' = "" /\ error' = ""
     /\ (SoleCallFinished /\ OkWithContent(last'.arg))
          => content' = last'.arg.content /\ error' = "" /\ ~loading'
     /\ SoleCallFinished => (content' # "") # (error' # "")]_vars

\* C20 as amended: ... when it is the only call in progress, the response is
\* OK with a non-empty content field and no handler has set error since the
\* call cleared it, the state afterwards has content equal to that field,
\* error empty and loading false; a sole call that fails leaves content empty
\* and error non-empty; so exactly one of content and error is non-empty once
\* a validated call has finished, unless another handler set error while a
\* request that succeeds was in flight.
C20_ExactlyOneUnlessErrorSetMeanwhile ==
  [][/\ Sent => content' = "" /\ error' = ""
     /\ (SoleCallFinished /\ OkWithContent(last'.arg))
          => /\ content' = last'.arg.content /\ ~loading'
             /\ error' = error
             /\ error = "" => error' = ""
     /\ (SoleCallFinished /\ ~OkWithContent(last'.arg))
          => content' = "" /\ error' # "" /\ ~loading'
     /\ (SoleCallFinished /\ (OkWithContent(last'.arg) => error = ""))
          => (content' # "") # (error' # "")]_vars

\* the only call in progress got an OK response with content
C20_Witness ==
  /\ last.op = "requestCompletes"
  /\ ~last.overlapped
  /\ last.arg.kind = "ok"
  /\ content = "c2"
  /\ error = ""
  /\ ~loading
====
